---- MODULE Spec2Model ----
(***************************************************************************)
(* A model of the lazy numeric sequence library range(): the Range class,  *)
(* its base generator, the filter/map/stop pipeline of getNextValue, the   *)
(* pre-generation buffers used by length and reverse, and clone/reset.     *)
(*                                                                         *)
(* JavaScript numbers are modelled as tagged pairs so that Infinity, NaN   *)
(* and undefined take part in arithmetic and comparison the way they do in *)
(* the language.  Iteration objects ({done, value}) that are held in a     *)
(* buffer have an identity (an index into heap.objs): Array.slice() copies *)
(* the references, not the objects.                                        *)
(***************************************************************************)
EXTENDS Integers, Sequences, FiniteSets, TLC

\* Number.MAX_SAFE_INTEGER, scaled down so that the ceiling is reachable, and
\* large enough that the counters of the runs with chains stay below it.
MAX_SAFE_INTEGER == 16

\* The largest number of Range objects on the heap.
MaxNodes == 5

\* The number of client calls in one run.
MaxCalls == 4

\* The number of values one call may pull before it is counted as running
\* forever (an unbounded loop or recursion in the program): more than the
\* longest finite range has.
MaxPull == 2 * MAX_SAFE_INTEGER + 4

----------------------------------------------------------------------------
\* JavaScript values

Num(n) == <<"num", n>>
PosInf == <<"inf", 1>>
NegInf == <<"inf", -1>>
NaN == <<"nan", 0>>
Undefined == <<"undef", 0>>
Null == <<"null", 0>>
Frac(n) == <<"frac", n>>
Pair(i, v) == <<"pair", i, v>>

IsNum(v) == v[1] = "num"
IsOrdered(v) == v[1] \in {"num", "inf"}

\* Number.isFinite
IsFiniteNumber(v) == v[1] \in {"num", "frac"}

\* Number.isSafeInteger
IsSafeInteger(v) == IsNum(v) /\ v[2] >= -MAX_SAFE_INTEGER /\ v[2] <= MAX_SAFE_INTEGER

\* a < b; any comparison with NaN or undefined is false
JsLT(a, b) ==
  /\ IsOrdered(a)
  /\ IsOrdered(b)
  /\ CASE IsNum(a) /\ IsNum(b) -> a[2] < b[2]
       [] IsNum(a) /\ ~IsNum(b) -> b[2] > 0
       [] ~IsNum(a) /\ IsNum(b) -> a[2] < 0
       [] OTHER -> a[2] < b[2]

JsLE(a, b) == IsOrdered(a) /\ IsOrdered(b) /\ (a = b \/ JsLT(a, b))
JsGE(a, b) == JsLE(b, a)
JsGT(a, b) == JsLT(b, a)

AbsInt(n) == IF n < 0 THEN -n ELSE n

\* Math.abs
JsAbs(v) ==
  CASE IsNum(v) -> Num(AbsInt(v[2]))
    [] v[1] = "inf" -> PosInf
    [] OTHER -> NaN

\* Math.sign(v) * Infinity
SignTimesInfinity(v) ==
  CASE IsNum(v) /\ v[2] > 0 -> PosInf
    [] IsNum(v) /\ v[2] < 0 -> NegInf
    [] v[1] = "inf" -> v
    [] OTHER -> NaN

\* v + k and v - k for an integer k
JsAdd(v, k) ==
  CASE IsNum(v) -> Num(v[2] + k)
    [] v[1] = "inf" -> v
    [] OTHER -> NaN

\* v * k for an integer k # 0
JsTimes(v, k) ==
  CASE IsNum(v) -> Num(v[2] * k)
    [] v[1] = "inf" -> IF k > 0 THEN v ELSE <<"inf", -v[2]>>
    [] OTHER -> NaN

\* Math.floor(a / b) for integers, b # 0
FloorDiv(a, b) == IF b > 0 THEN a \div b ELSE (-a) \div (-b)

\* the counters: c < MAX_SAFE_INTEGER ? c + 1 : Infinity
\* a counter raised without the test against the ceiling
BumpPlain(c) == JsAdd(c, 1)

Bump(c) == IF JsLT(c, Num(MAX_SAFE_INTEGER)) THEN JsAdd(c, 1) ELSE PosInf

----------------------------------------------------------------------------
\* Callbacks.  A callback is a tagged pair; NoCb is the null callback.

NoCb == <<"none", 0>>

\* filter and takeWhile predicates, called with (value, index)
ApplyPred(cb, v, idx) ==
  CASE cb[1] = "odd" -> IsNum(v) /\ v[2] % 2 # 0  \* n => n % 2
    [] cb[1] = "vlt" -> JsLT(v, Num(cb[2]))       \* n => n < k
    [] cb[1] = "vne" -> v # Num(cb[2])            \* n => n !== k
    [] cb[1] = "idxle" -> JsLE(idx, Num(cb[2]))   \* (_, index) => index <= k
    [] cb[1] = "idxlt" -> JsLT(idx, Num(cb[2]))   \* (_, index) => index < k
    [] OTHER -> TRUE

\* map callbacks, called with (value, index)
ApplyMap(cb, v, idx) ==
  CASE cb[1] = "double" -> IF v[1] = "pair" THEN NaN ELSE JsTimes(v, 2)
    [] cb[1] = "neg" -> IF v[1] = "pair" THEN NaN ELSE JsTimes(v, -1)
    [] cb[1] = "inc" -> IF v[1] = "pair" THEN NaN ELSE JsAdd(v, 1)
    [] cb[1] = "enum" -> Pair(idx, v)             \* (value, index) => [index, value]
    [] OTHER -> v

----------------------------------------------------------------------------
\* range(start, end, step): validation and the default step

Env(start, end, step) == [start |-> start, end |-> end, step |-> step]

\* step = null in the parameter list: an argument that is missing or
\* undefined takes the default
StepParam(step) == IF step = Undefined THEN Null ELSE step

\* the validation without the test for a zero step
RangeErrorZeroStep(start, end, step) ==
  CASE ~IsSafeInteger(start) -> "TypeError"
    [] ~(IsNum(end) \/ end[1] = "inf") -> "TypeError"
    [] IsNum(end) /\ ~IsSafeInteger(end) -> "RangeError"
    [] StepParam(step) # Null /\ ~IsSafeInteger(step) -> "TypeError"
    [] OTHER -> "ok"

RangeError(start, end, step) ==
  CASE ~IsSafeInteger(start) -> "TypeError"
    [] ~(IsNum(end) \/ end[1] = "inf") -> "TypeError"
    [] IsNum(end) /\ ~IsSafeInteger(end) -> "RangeError"
    [] StepParam(step) # Null /\ ~IsSafeInteger(step) -> "TypeError"
    [] StepParam(step) # Null /\ step = Num(0) -> "RangeError"
    [] OTHER -> "ok"

DefaultStep(start, end) == IF JsGE(end, start) THEN 1 ELSE -1

RangeEnv(start, end, step) ==
  Env(start[2], end,
      IF StepParam(step) = Null THEN DefaultStep(start, end) ELSE step[2])

----------------------------------------------------------------------------
\* The heap: Range objects and the buffered iteration objects

NewRange(env, filter, map, stop, parentRange) ==
  [ filter |-> filter,
    map |-> map,
    stop |-> stop,
    parent |-> parentRange,
    cur |-> Num(env.start),
    index |-> Num(0),
    it |-> IF parentRange = 0 THEN "fresh" ELSE "parent",
    length |-> Null,
    pre |-> <<>>,
    hasOrig |-> FALSE,
    orig |-> <<>>,
    gen |-> Num(0),
    isFinite |-> IsFiniteNumber(env.end),
    env |-> env ]

EmptyHeap == [nodes |-> <<>>, objs |-> <<>>]

SetNode(h, n, nd) == [h EXCEPT !.nodes[n] = nd]

AddNode(h, nd) == [h EXCEPT !.nodes = Append(h.nodes, nd)]

DoneIt == [done |-> TRUE, value |-> Undefined, obj |-> 0]

\* the value a buffered iteration object holds now
ObjValue(h, o) == h.objs[o]

\* iteration.value = v: an assignment to an object that a buffer may hold
SetValue(h, it, v) ==
  IF it.obj = 0 THEN h ELSE [h EXCEPT !.objs[it.obj] = v]

\* array.push(iteration): a fresh object gets an identity
PushPre(h, n, it, idx) ==
  IF it.obj = 0
    THEN LET o == Len(h.objs) + 1
         IN [h EXCEPT !.objs = Append(h.objs, it.value),
                      !.nodes[n].pre = Append(@, <<o, idx>>)]
    ELSE [h EXCEPT !.nodes[n].pre = Append(@, <<it.obj, idx>>)]

----------------------------------------------------------------------------
\* createIterator: the generator of a root

IsEnded(cur, env) ==
  IF ~IsFiniteNumber(env.end)
    THEN FALSE
    ELSE IF env.step > 0 THEN JsGE(cur, env.end) ELSE JsLE(cur, env.end)

\* the statements after the yield
Advance(cur, step) ==
  LET currentSafeLimit == Num(MAX_SAFE_INTEGER - AbsInt(step))
  IN IF JsLT(currentSafeLimit, JsAbs(cur))
       THEN SignTimesInfinity(cur)
       ELSE JsAdd(cur, step)

\* iterator.next() of the generator of root n, its current value being cur
Resume(h, n, cur) ==
  IF IsEnded(cur, h.nodes[n].env)
    THEN [h |-> [h EXCEPT !.nodes[n].cur = cur, !.nodes[n].it = "done"],
          it |-> DoneIt, div |-> FALSE]
    ELSE [h |-> [h EXCEPT !.nodes[n].cur = cur, !.nodes[n].it = "susp"],
          it |-> [done |-> FALSE, value |-> cur, obj |-> 0], div |-> FALSE]

\* a generator that starts again after it has returned
GeneratorRestarts(h, n) ==
  CASE h.nodes[n].it = "done" -> Resume(h, n, Num(h.nodes[n].env.start))
    [] h.nodes[n].it = "susp" ->
         Resume(h, n, Advance(h.nodes[n].cur, h.nodes[n].env.step))
    [] OTHER -> Resume(h, n, h.nodes[n].cur)

GeneratorNext(h, n) ==
  CASE h.nodes[n].it = "done" -> [h |-> h, it |-> DoneIt, div |-> FALSE]
    [] h.nodes[n].it = "susp" ->
         Resume(h, n, Advance(h.nodes[n].cur, h.nodes[n].env.step))
    [] OTHER -> Resume(h, n, h.nodes[n].cur)

----------------------------------------------------------------------------
\* getNextValue and Range.next.  A result is the heap, the iteration, the
\* next index, and div: the call did not return within the bound.

RECURSIVE GetNextValue(_, _, _, _)
RECURSIVE RangeNext(_, _, _)
RECURSIVE Examine(_, _, _, _, _)

Gave(h, it, idx, div) == [h |-> h, it |-> it, idx |-> idx, div |-> div]

\* iteration.value = range._map(...), then the stop test
MapAndStop(src, nd, nextIndex, mapped) ==
  IF nd.stop # NoCb /\ ~ApplyPred(nd.stop, mapped, nextIndex)
    THEN Gave(SetValue(src.h, src.it, mapped), DoneIt, nextIndex, FALSE)
    ELSE Gave(SetValue(src.h, src.it, mapped),
              [src.it EXCEPT !.value = mapped], nextIndex, FALSE)

\* getNextValue after range._iterator.next() has returned src; fuel bounds
\* the recursion on rejected values
\* getNextValue where a rejected value ends the sequence
ExamineEnding(src, n, currentIndex, nextIndex, fuel) ==
  CASE src.div -> Gave(src.h, DoneIt, nextIndex, TRUE)
    [] ~src.div /\ src.it.done -> Gave(src.h, src.it, nextIndex, FALSE)
    [] ~src.div /\ ~src.it.done
         /\ src.h.nodes[n].filter # NoCb
         /\ ~ApplyPred(src.h.nodes[n].filter, src.it.value, nextIndex) ->
         Gave(src.h, DoneIt, nextIndex, FALSE)
    [] OTHER ->
         MapAndStop(src, src.h.nodes[n], nextIndex,
                    IF src.h.nodes[n].map # NoCb
                      THEN ApplyMap(src.h.nodes[n].map, src.it.value, nextIndex)
                      ELSE src.it.value)

Examine(src, n, currentIndex, nextIndex, fuel) ==
  CASE src.div -> Gave(src.h, DoneIt, nextIndex, TRUE)
    [] ~src.div /\ src.it.done -> Gave(src.h, src.it, nextIndex, FALSE)
    [] ~src.div /\ ~src.it.done
         /\ src.h.nodes[n].filter # NoCb
         /\ ~ApplyPred(src.h.nodes[n].filter, src.it.value, nextIndex) ->
         IF fuel = 0
           THEN Gave(src.h, DoneIt, nextIndex, TRUE)
           ELSE GetNextValue(src.h, n, currentIndex, fuel - 1)
    [] OTHER ->
         MapAndStop(src, src.h.nodes[n], nextIndex,
                    IF src.h.nodes[n].map # NoCb
                      THEN ApplyMap(src.h.nodes[n].map, src.it.value, nextIndex)
                      ELSE src.it.value)

GetNextValue(h, n, currentIndex, fuel) ==
  Examine(IF h.nodes[n].parent = 0
            THEN GeneratorNext(h, n)
            ELSE RangeNext(h, h.nodes[n].parent, fuel),
          n, currentIndex, Bump(currentIndex), fuel)

\* the assignments of next() once the iteration r is known
Deliver(r, n) ==
  IF r.div
    THEN r
    ELSE Gave([r.h EXCEPT !.nodes[n].index = r.idx,
                          !.nodes[n].cur = r.it.value,
                          !.nodes[n].gen = Bump(@)],
              r.it, r.idx, FALSE)

\* this._preGeneratedValues.shift()
Shift(h, n, e) ==
  Gave([h EXCEPT !.nodes[n].pre = Tail(@)],
       [done |-> FALSE, value |-> ObjValue(h, e[1]), obj |-> e[1]], e[2], FALSE)

\* next() that ignores the buffer
NextFresh(h, n, fuel) ==
  Deliver(GetNextValue(h, n, h.nodes[n].index, fuel), n)

\* Range.next()
RangeNext(h, n, fuel) ==
  Deliver(IF Len(h.nodes[n].pre) > 0
            THEN Shift(h, n, Head(h.nodes[n].pre))
            ELSE GetNextValue(h, n, h.nodes[n].index, fuel),
          n)

----------------------------------------------------------------------------
\* [...range]: next() until done.  acc holds the values produced so far.

RECURSIVE Spread(_, _, _, _)
RECURSIVE Gather(_, _, _, _)

Spread(h, n, acc, fuel) == Gather(RangeNext(h, n, MaxPull), n, acc, fuel)

Gather(r, n, acc, fuel) ==
  CASE r.div -> [h |-> r.h, vals |-> acc, div |-> TRUE]
    [] ~r.div /\ r.it.done -> [h |-> r.h, vals |-> acc, div |-> FALSE]
    [] ~r.div /\ ~r.it.done /\ fuel = 0 -> [h |-> r.h, vals |-> acc, div |-> TRUE]
    [] OTHER -> Spread(r.h, n, Append(acc, r.it.value), fuel - 1)

----------------------------------------------------------------------------
\* get length

\* the while loop of the getter: pre-generate until done
RECURSIVE PreGenerate(_, _, _, _)
RECURSIVE Keep(_, _, _)

PreGenerate(h, n, idx, fuel) == Keep(GetNextValue(h, n, idx, MaxPull), n, fuel)

Keep(r, n, fuel) ==
  CASE r.div -> [h |-> r.h, div |-> TRUE]
    [] ~r.div /\ r.it.done -> [h |-> r.h, div |-> FALSE]
    [] ~r.div /\ ~r.it.done /\ fuel = 0 -> [h |-> r.h, div |-> TRUE]
    [] OTHER -> PreGenerate(PushPre(r.h, n, r.it, r.idx), n, r.idx, fuel - 1)

\* the test for a filter without the walk up the parents
OwnFilter(h, n) == h.nodes[n].filter # NoCb

\* the walk up the parents that decides whether to warn
RECURSIVE IsFilteredRange(_, _)
IsFilteredRange(h, n) ==
  \/ h.nodes[n].filter # NoCb
  \/ h.nodes[n].parent # 0 /\ IsFilteredRange(h, h.nodes[n].parent)

\* Math.floor((end - start) / step) + (((end - start) % step) ? 1 : 0)
QuotientLength(d, step) ==
  FloorDiv(d, step) + (IF AbsInt(d) % AbsInt(step) # 0 THEN 1 ELSE 0)

RootLength(env) == QuotientLength(env.end[2] - env.start, env.step)

\* generatedValuesCount + preGeneratedValues.length, or Infinity
CountedLength(gen, n) ==
  IF JsLE(Num(n), JsAdd(JsTimes(gen, -1), MAX_SAFE_INTEGER))
    THEN JsAdd(gen, n)
    ELSE PosInf

\* this._length = l; return l
Memo(h, n, l, div, warn) ==
  [h |-> [h EXCEPT !.nodes[n].length = l], val |-> l, div |-> div, warn |-> warn]

Inherit(p, n) == Memo(p.h, n, p.val, p.div, p.warn)

Counted(g, n) ==
  Memo(g.h, n, CountedLength(g.h.nodes[n].gen, Len(g.h.nodes[n].pre)), g.div, FALSE)

RECURSIVE RangeLength(_, _)
RangeLength(h, n) ==
  CASE h.nodes[n].length # Null ->
         [h |-> h, val |-> h.nodes[n].length, div |-> FALSE, warn |-> FALSE]
    [] h.nodes[n].length = Null /\ ~h.nodes[n].isFinite ->
         Memo(h, n, PosInf, FALSE, IsFilteredRange(h, n))
    [] h.nodes[n].length = Null /\ h.nodes[n].isFinite
         /\ h.nodes[n].filter = NoCb /\ h.nodes[n].stop = NoCb ->
         IF h.nodes[n].parent # 0
           THEN Inherit(RangeLength(h, h.nodes[n].parent), n)
           ELSE Memo(h, n, Num(RootLength(h.nodes[n].env)), FALSE, FALSE)
    [] OTHER -> Counted(PreGenerate(h, n, h.nodes[n].index, MaxPull), n)

----------------------------------------------------------------------------
\* reset

RECURSIVE RangeReset(_, _)

Rewind(h, n) ==
  [h EXCEPT !.nodes[n].index = Num(0),
            !.nodes[n].gen = Num(0),
            !.nodes[n].pre = IF h.nodes[n].hasOrig THEN h.nodes[n].orig ELSE <<>>]

\* reset that leaves the parent alone
ResetAlone(h, n) ==
  Rewind(IF h.nodes[n].parent # 0
           THEN h
           ELSE [h EXCEPT !.nodes[n].cur = Num(h.nodes[n].env.start),
                          !.nodes[n].it = "fresh"],
         n)

RangeReset(h, n) ==
  Rewind(IF h.nodes[n].parent # 0
           THEN RangeReset(h, h.nodes[n].parent)
           ELSE [h EXCEPT !.nodes[n].cur = Num(h.nodes[n].env.start),
                          !.nodes[n].it = "fresh"],
         n)

----------------------------------------------------------------------------
\* clone

RECURSIVE RangeClone(_, _)

\* the fields clone() copies
Copy(nd, parentClone) ==
  [NewRange(nd.env, nd.filter, nd.map, nd.stop, parentClone) EXCEPT
     !.cur = nd.cur,
     !.index = nd.index,
     !.length = nd.length,
     !.pre = nd.pre,
     !.gen = nd.gen]

\* clone._iterator.next(): shift the iterator after the current value
ShiftIterator(h, nd) ==
  IF nd.parent = 0 /\ nd.index # Num(0)
    THEN [h |-> GeneratorNext(h, Len(h.nodes)).h, id |-> Len(h.nodes)]
    ELSE [h |-> h, id |-> Len(h.nodes)]

CloneOnto(pc, nd) == ShiftIterator(AddNode(pc.h, Copy(nd, pc.id)), nd)

RangeClone(h, n) ==
  CloneOnto(IF h.nodes[n].parent # 0
              THEN RangeClone(h, h.nodes[n].parent)
              ELSE [h |-> h, id |-> 0],
            h.nodes[n])

----------------------------------------------------------------------------
\* map, filter, takeWhile, take

RangeMap(h, n, cb) == AddNode(h, NewRange(h.nodes[n].env, NoCb, cb, NoCb, n))

RangeFilter(h, n, cb) == AddNode(h, NewRange(h.nodes[n].env, cb, NoCb, NoCb, n))

RangeTakeWhile(h, n, cb) == AddNode(h, NewRange(h.nodes[n].env, NoCb, NoCb, cb, n))

TakeThrows(count) == ~IsSafeInteger(count) \/ count[2] < 0

\* take without the assignment to _isFinite
LeaveUnmarked(h) == h

MarkFinite(h) == [h EXCEPT !.nodes[Len(h.nodes)].isFinite = TRUE]

\* take with the limit index < count
TakeOneLess(h, n, count) ==
  MarkFinite(RangeTakeWhile(h, n, <<"idxlt", count[2]>>))

RangeTake(h, n, count) == MarkFinite(RangeTakeWhile(h, n, <<"idxle", count[2]>>))

----------------------------------------------------------------------------
\* reverse.  A result is the heap, the new node (0 when none), threw, div.

Reversed(vals) == [i \in 1..Len(vals) |-> vals[Len(vals) + 1 - i]]

\* values.reverse().map((value, index) => [{done: false, value}, index + 1]),
\* the new objects being objs[base + 1], objs[base + 2], ...
ReversedBuffer(vals, base) == [k \in 1..Len(vals) |-> <<base + k, Num(k)>>]

Made(h, threw, div) ==
  [h |-> h, id |-> IF threw = "ok" /\ ~div THEN Len(h.nodes) ELSE 0,
   threw |-> threw, div |-> div]

\* return range(end - step, newEnd, -step)
ReverseRoot(h, newStart, newEnd, newStep) ==
  IF RangeError(newStart, newEnd, newStep) # "ok"
    THEN Made(h, RangeError(newStart, newEnd, newStep), FALSE)
    ELSE Made(AddNode(h, NewRange(RangeEnv(newStart, newEnd, newStep),
                                  NoCb, NoCb, NoCb, 0)),
              "ok", FALSE)

\* new Range(null, null, null, range(0, 0)) and the assignments to it
ReversedRange(env, parentRange, buf) ==
  [NewRange(env, NoCb, NoCb, NoCb, parentRange) EXCEPT
     !.cur = env.end,
     !.pre = buf,
     !.hasOrig = TRUE,
     !.orig = buf,
     !.length = Num(Len(buf))]

Attach(h, env, vals) ==
  AddNode(AddNode([h EXCEPT !.objs = @ \o vals],
                  NewRange(Env(0, Num(0), 1), NoCb, NoCb, NoCb, 0)),
          ReversedRange(env, Len(h.nodes) + 1, ReversedBuffer(vals, Len(h.objs))))

\* s is [...this.clone()]; the clone chain is garbage once iterated
ReverseBuffered(s, h, n) ==
  IF s.div
    THEN Made(h, "ok", TRUE)
    ELSE Made(Attach([s.h EXCEPT !.nodes = SubSeq(@, 1, Len(h.nodes))],
                     h.nodes[n].env, Reversed(s.vals)),
              "ok", FALSE)

SpreadClone(c) == Spread(c.h, c.id, <<>>, MaxPull)

RangeReverse(h, n) ==
  CASE ~h.nodes[n].isFinite -> Made(h, "Error", FALSE)
    [] h.nodes[n].isFinite /\ h.nodes[n].parent = 0 ->
         ReverseRoot(h,
                     JsAdd(h.nodes[n].env.end, -h.nodes[n].env.step),
                     IF h.nodes[n].index = Num(0)
                       THEN JsAdd(h.nodes[n].cur, -h.nodes[n].env.step)
                       ELSE h.nodes[n].cur,
                     Num(-h.nodes[n].env.step))
    [] OTHER -> ReverseBuffered(SpreadClone(RangeClone(h, n)), h, n)

----------------------------------------------------------------------------
\* toArray

Exported(s) == [h |-> s.h, vals |-> s.vals, div |-> s.div, threw |-> "ok"]

\* toArray that asks for a value before the test of _isFinite
ToArrayPullsFirst(h, n) ==
  IF ~h.nodes[n].isFinite
    THEN [h |-> RangeNext(h, n, MaxPull).h, vals |-> <<>>, div |-> FALSE,
          threw |-> "Error"]
    ELSE Exported(Spread(h, n, <<>>, MaxPull))

RangeToArray(h, n) ==
  IF ~h.nodes[n].isFinite
    THEN [h |-> h, vals |-> <<>>, div |-> FALSE, threw |-> "Error"]
    ELSE Exported(Spread(h, n, <<>>, MaxPull))

----------------------------------------------------------------------------
\* enumerate and reduce

\* enumerate that leaves the values as they are
EnumerateUnpaired(h, n) == RangeMap(h, n, NoCb)

RangeEnumerate(h, n) == RangeMap(h, n, <<"enum", 0>>)

\* the operation of reduce: (list, value, index) => list.concat([[value, index]])
ApplyOperation(op, result, v, idx) ==
  CASE op = "list" -> Append(result, <<v, idx>>)
    [] OTHER -> result

\* for (let value of this) result = operation(result, value, this._index, this)
RECURSIVE ReduceLoop(_, _, _, _, _)
RECURSIVE Fold(_, _, _, _, _)

ReduceLoop(h, n, result, op, fuel) ==
  Fold(RangeNext(h, n, MaxPull), n, result, op, fuel)

Fold(r, n, result, op, fuel) ==
  CASE r.div -> [h |-> r.h, val |-> result, div |-> TRUE, threw |-> "ok"]
    [] ~r.div /\ r.it.done ->
         [h |-> r.h, val |-> result, div |-> FALSE, threw |-> "ok"]
    [] ~r.div /\ ~r.it.done /\ fuel = 0 ->
         [h |-> r.h, val |-> result, div |-> TRUE, threw |-> "ok"]
    [] OTHER ->
         ReduceLoop(r.h, n,
                    ApplyOperation(op, result, r.it.value, r.h.nodes[n].index),
                    op, fuel - 1)

\* reduce without the test of _isFinite
ReduceUnchecked(h, n, initialValue, op) ==
  ReduceLoop(h, n, initialValue, op, MaxPull)

RangeReduce(h, n, initialValue, op) ==
  IF ~h.nodes[n].isFinite
    THEN [h |-> h, val |-> Undefined, div |-> FALSE, threw |-> "Error"]
    ELSE ReduceLoop(h, n, initialValue, op, MaxPull)

----------------------------------------------------------------------------
\* Unreachable iteration objects are collected, and the reachable ones are
\* numbered in the order the buffers hold them.

BufferObjs(buf) == [i \in 1..Len(buf) |-> buf[i][1]]

RECURSIVE HeldObjs(_, _)
HeldObjs(h, k) ==
  IF k > Len(h.nodes)
    THEN <<>>
    ELSE BufferObjs(h.nodes[k].pre) \o BufferObjs(h.nodes[k].orig) \o HeldObjs(h, k + 1)

RECURSIVE Distinct(_, _)
Distinct(s, seen) ==
  IF s = <<>>
    THEN <<>>
    ELSE IF Head(s) \in seen
      THEN Distinct(Tail(s), seen)
      ELSE <<Head(s)>> \o Distinct(Tail(s), seen \cup {Head(s)})

Position(order, o) == CHOOSE i \in 1..Len(order) : order[i] = o

Moved(buf, order) == [i \in 1..Len(buf) |-> <<Position(order, buf[i][1]), buf[i][2]>>]

Renumber(h, order) ==
  [nodes |-> [k \in 1..Len(h.nodes) |->
                [h.nodes[k] EXCEPT !.pre = Moved(@, order), !.orig = Moved(@, order)]],
   objs |-> [i \in 1..Len(order) |-> h.objs[order[i]]]]

Collect(h) == Renumber(h, Distinct(HeldObjs(h, 1), {}))

----------------------------------------------------------------------------
\* The client: one range() call, then up to MaxCalls calls on the objects

VARIABLES heap, last, calls, built, pristine

vars == <<heap, last, calls, built, pristine>>

\* the range() calls of the runs with chains: an ascending range, an
\* unbounded one, a descending one whose step does not divide end - start,
\* and one whose step points away from end
Ranges ==
  { <<Num(-1), Num(3), Null>>,
    <<Num(0), PosInf, Null>>,
    <<Num(1), Num(-2), Num(-2)>>,
    <<Num(0), Num(3), Num(-1)>> }

Filters == {<<"odd", 0>>}
Maps == {<<"inc", 0>>}
Stops == {<<"vne", 1>>}
Counts == {Num(-1), Num(2)}

Nodes == 1..Len(heap.nodes)

\* the number of objects clone() creates for node n
RECURSIVE Depth(_, _)
Depth(h, n) == IF h.nodes[n].parent = 0 THEN 1 ELSE 1 + Depth(h, h.nodes[n].parent)

Room(k) == Len(heap.nodes) + k <= MaxNodes

Running == calls < MaxCalls /\ ~last.div

Call(op, n, arg) ==
  [op |-> op, node |-> n, arg |-> arg, threw |-> "ok", div |-> FALSE,
   val |-> Undefined, done |-> FALSE, vals |-> <<>>, id |-> 0, warn |-> FALSE,
   index |-> Num(0)]

\* What iterating a node gave when it was built, for the nodes built before
\* any value was pulled from any node (built and pristine are history
\* variables: the program does not read them).
Judged(s, p) ==
  [known |-> p /\ ~s.div, vals |-> IF p /\ ~s.div THEN s.vals ELSE <<>>]

Outcome(h, n, p) == Judged(Spread(h, n, <<>>, MaxPull), p)

Known(h, have, p) ==
  [k \in 1..(Len(h.nodes) - have) |-> Outcome(h, have + k, p)]

Builds(h) ==
  /\ built' = built \o Known(h, Len(built), pristine)
  /\ pristine' = pristine

Pulls ==
  /\ built' = built
  /\ pristine' = FALSE

Init ==
  \E a \in Ranges :
    /\ RangeError(a[1], a[2], a[3]) = "ok"
    /\ heap = AddNode(EmptyHeap, NewRange(RangeEnv(a[1], a[2], a[3]), NoCb, NoCb, NoCb, 0))
    /\ last = [Call("range", 1, a[3]) EXCEPT !.id = 1]
    /\ calls = 0
    /\ pristine = TRUE
    /\ built = Known(heap, 0, TRUE)

NextOp(n) ==
  /\ Running
  /\ LET r == RangeNext(heap, n, MaxPull)
     IN /\ heap' = IF r.div THEN heap ELSE Collect(r.h)
        /\ last' = [Call("next", n, Null) EXCEPT
                      !.div = r.div, !.val = r.it.value, !.done = r.it.done,
                      !.index = heap.nodes[n].index]
  /\ calls' = calls + 1
  /\ Pulls

LengthOp(n) ==
  /\ Running
  /\ LET r == RangeLength(heap, n)
     IN /\ heap' = IF r.div THEN heap ELSE Collect(r.h)
        /\ last' = [Call("length", n, Null) EXCEPT
                      !.div = r.div, !.val = r.val, !.warn = r.warn,
                      !.index = heap.nodes[n].index]
  /\ calls' = calls + 1
  /\ Pulls

ResetOp(n) ==
  /\ Running
  /\ heap' = Collect(RangeReset(heap, n))
  /\ last' = [Call("reset", n, Null) EXCEPT !.index = heap.nodes[n].index]
  /\ calls' = calls + 1
  /\ Pulls

CloneOp(n) ==
  /\ Running
  /\ Room(Depth(heap, n))
  /\ LET r == RangeClone(heap, n)
     IN /\ heap' = Collect(r.h)
        /\ last' = [Call("clone", n, Null) EXCEPT
                      !.id = r.id, !.index = heap.nodes[n].index]
  /\ calls' = calls + 1
  /\ Builds(heap')

ReverseOp(n) ==
  /\ Running
  /\ Room(2)
  /\ LET r == RangeReverse(heap, n)
     IN /\ heap' = IF r.div THEN heap ELSE Collect(r.h)
        /\ last' = [Call("reverse", n, Null) EXCEPT
                      !.div = r.div, !.threw = r.threw, !.id = r.id,
                      !.index = heap.nodes[n].index]
  /\ calls' = calls + 1
  /\ Builds(heap')

MapOp(n, cb) ==
  /\ Running
  /\ Room(1)
  /\ heap' = RangeMap(heap, n, cb)
  /\ last' = [Call("map", n, cb) EXCEPT
                !.id = Len(heap.nodes) + 1, !.index = heap.nodes[n].index]
  /\ calls' = calls + 1
  /\ Builds(heap')

FilterOp(n, cb) ==
  /\ Running
  /\ Room(1)
  /\ heap' = RangeFilter(heap, n, cb)
  /\ last' = [Call("filter", n, cb) EXCEPT
                !.id = Len(heap.nodes) + 1, !.index = heap.nodes[n].index]
  /\ calls' = calls + 1
  /\ Builds(heap')

TakeWhileOp(n, cb) ==
  /\ Running
  /\ Room(1)
  /\ heap' = RangeTakeWhile(heap, n, cb)
  /\ last' = [Call("takeWhile", n, cb) EXCEPT
                !.id = Len(heap.nodes) + 1, !.index = heap.nodes[n].index]
  /\ calls' = calls + 1
  /\ Builds(heap')

TakeOp(n, count) ==
  /\ Running
  /\ Room(1)
  /\ IF TakeThrows(count)
       THEN /\ heap' = heap
            /\ last' = [Call("take", n, count) EXCEPT
                          !.threw = "TypeError", !.index = heap.nodes[n].index]
       ELSE /\ heap' = RangeTake(heap, n, count)
            /\ last' = [Call("take", n, count) EXCEPT
                          !.id = Len(heap.nodes) + 1, !.index = heap.nodes[n].index]
  /\ calls' = calls + 1
  /\ Builds(heap')

ToArrayOp(n) ==
  /\ Running
  /\ LET r == RangeToArray(heap, n)
     IN /\ heap' = IF r.div THEN heap ELSE Collect(r.h)
        /\ last' = [Call("toArray", n, Null) EXCEPT
                      !.div = r.div, !.threw = r.threw, !.vals = r.vals,
                      !.index = heap.nodes[n].index]
  /\ calls' = calls + 1
  /\ Pulls

Next ==
  \/ \E n \in Nodes : NextOp(n)
  \/ \E n \in Nodes : LengthOp(n)
  \/ \E n \in Nodes : ResetOp(n)
  \/ \E n \in Nodes : CloneOp(n)
  \/ \E n \in Nodes : ReverseOp(n)
  \/ \E n \in Nodes, cb \in Maps : MapOp(n, cb)
  \/ \E n \in Nodes, cb \in Filters : FilterOp(n, cb)
  \/ \E n \in Nodes, cb \in Stops : TakeWhileOp(n, cb)
  \/ \E n \in Nodes, count \in Counts : TakeOp(n, count)
  \/ \E n \in Nodes : ToArrayOp(n)

Spec == Init /\ [][Next]_vars

----------------------------------------------------------------------------
\* The runs on roots alone: the range() calls with arguments near zero and
\* near the two ends of the safe integers, then up to MaxRootCalls calls on
\* the roots

MaxRootCalls == 2

Near == {-2, -1, 0, 1, 2}
Edge == {MAX_SAFE_INTEGER - 1, MAX_SAFE_INTEGER}

Starts == {Num(i) : i \in Near \cup Edge \cup {-e : e \in Edge}}
Ends == Starts \cup {PosInf, NegInf}
Steps == {Null, Num(-2), Num(-1), Num(1), Num(2)}

RootInit ==
  \E start \in Starts, end \in Ends, step \in Steps :
    /\ RangeError(start, end, step) = "ok"
    /\ heap = AddNode(EmptyHeap, NewRange(RangeEnv(start, end, step), NoCb, NoCb, NoCb, 0))
    /\ last = [Call("range", 1, step) EXCEPT !.id = 1]
    /\ calls = 0
    /\ pristine = TRUE
    /\ built = Known(heap, 0, TRUE)

RootRunning == calls < MaxRootCalls

RootNext ==
  \/ RootRunning /\ \E n \in Nodes : NextOp(n)
  \/ RootRunning /\ \E n \in Nodes : LengthOp(n)
  \/ RootRunning /\ \E n \in Nodes : ResetOp(n)
  \/ RootRunning /\ \E n \in Nodes : CloneOp(n)
  \/ RootRunning /\ \E n \in Nodes : ReverseOp(n)
  \/ RootRunning /\ \E n \in Nodes : ToArrayOp(n)

RootSpec == RootInit /\ [][RootNext]_vars

----------------------------------------------------------------------------
\* The runs with every operation of a chain, reduce and enumerate included:
\* one range() call, then up to MaxPipeCalls calls

MaxPipeCalls == 3

\* the initial values and the operations reduce is called with
Initials == {<<>>, <<"first">>}
Operations == {"list"}

ReduceOp(n, initialValue, op) ==
  /\ Running
  /\ LET r == RangeReduce(heap, n, initialValue, op)
     IN /\ heap' = IF r.div THEN heap ELSE Collect(r.h)
        /\ last' = [Call("reduce", n, initialValue) EXCEPT
                      !.div = r.div, !.threw = r.threw, !.val = r.val,
                      !.index = heap.nodes[n].index]
  /\ calls' = calls + 1
  /\ Pulls

EnumerateOp(n) ==
  /\ Running
  /\ Room(1)
  /\ heap' = RangeEnumerate(heap, n)
  /\ last' = [Call("enumerate", n, Null) EXCEPT
                !.id = Len(heap.nodes) + 1, !.index = heap.nodes[n].index]
  /\ calls' = calls + 1
  /\ Builds(heap')

PipeRunning == calls < MaxPipeCalls

PipeNext ==
  \/ PipeRunning /\ \E n \in Nodes : NextOp(n)
  \/ PipeRunning /\ \E n \in Nodes : LengthOp(n)
  \/ PipeRunning /\ \E n \in Nodes : ResetOp(n)
  \/ PipeRunning /\ \E n \in Nodes : CloneOp(n)
  \/ PipeRunning /\ \E n \in Nodes : ReverseOp(n)
  \/ PipeRunning /\ \E n \in Nodes, cb \in Maps : MapOp(n, cb)
  \/ PipeRunning /\ \E n \in Nodes, cb \in Filters : FilterOp(n, cb)
  \/ PipeRunning /\ \E n \in Nodes, cb \in Stops : TakeWhileOp(n, cb)
  \/ PipeRunning /\ \E n \in Nodes, count \in Counts : TakeOp(n, count)
  \/ PipeRunning /\ \E n \in Nodes : ToArrayOp(n)
  \/ PipeRunning /\ \E n \in Nodes : EnumerateOp(n)
  \/ PipeRunning /\ \E n \in Nodes, i \in Initials, op \in Operations :
       ReduceOp(n, i, op)

PipeSpec == Init /\ [][PipeNext]_vars

\* return new Range(null, null, null, null): the root range() returns
Root(env) == AddNode(EmptyHeap, NewRange(env, NoCb, NoCb, NoCb, 0))

----------------------------------------------------------------------------
\* The runs with arbitrary arguments: range() called with any values, and on
\* the sequence it returns up to MaxArgCalls calls, take() with any count
\* among them

MaxArgCalls == 2

Unsafe == MAX_SAFE_INTEGER + 1

ArgStarts ==
  {Num(0), Num(MAX_SAFE_INTEGER), Num(Unsafe), Num(-Unsafe), Frac(1), NaN,
   PosInf, Undefined, Null}

ArgEnds ==
  {Num(0), Num(3), Num(-MAX_SAFE_INTEGER), Num(Unsafe), Num(-Unsafe), Frac(1),
   NaN, PosInf, NegInf, Undefined, Null}

ArgSteps ==
  {Null, Undefined, Num(0), Num(1), Num(-2), Num(Unsafe), Frac(1), NaN, PosInf}

ArgCounts ==
  {Num(-1), Num(0), Num(2), Num(MAX_SAFE_INTEGER), Num(Unsafe), Frac(1), NaN,
   PosInf, Undefined, Null}

ArgInit ==
  /\ heap = EmptyHeap
  /\ last = Call("none", 0, Null)
  /\ calls = 0
  /\ pristine = TRUE
  /\ built = <<>>

RangeOp(start, end, step) ==
  /\ last.op = "none"
  /\ IF RangeError(start, end, step) # "ok"
       THEN /\ heap' = heap
            /\ last' = [Call("range", 0, <<start, end, step>>) EXCEPT
                          !.threw = RangeError(start, end, step)]
       ELSE /\ heap' = Root(RangeEnv(start, end, step))
            /\ last' = [Call("range", 0, <<start, end, step>>) EXCEPT !.id = 1]
  /\ calls' = calls
  /\ Builds(heap')

ArgRunning == calls < MaxArgCalls

ArgNext ==
  \/ \E start \in ArgStarts, end \in ArgEnds, step \in ArgSteps :
       RangeOp(start, end, step)
  \/ ArgRunning /\ \E n \in Nodes, count \in ArgCounts : TakeOp(n, count)
  \/ ArgRunning /\ \E n \in Nodes : NextOp(n)
  \/ ArgRunning /\ \E n \in Nodes : LengthOp(n)

ArgSpec == ArgInit /\ [][ArgNext]_vars

----------------------------------------------------------------------------
\* Properties of a fresh root: the first call of a run on roots

FirstCall(op) == calls = 1 /\ last.op = op /\ last.node = 1

RootEnv == heap.nodes[1].env

\* v lies strictly before end in the direction of step
Before(v, env) == IF env.step > 0 THEN v < env.end[2] ELSE v > env.end[2]

\* vals is start, start + step, start + 2 * step, ...
Stepping(vals, env) ==
  \A k \in 1..Len(vals) : vals[k] = Num(env.start + (k - 1) * env.step)

\* C1: with the step left unset and a finite end, iterating a fresh
\* range(start, end) to done ends, yields |end - start| values, the first is
\* start, and each value differs from the one before by +1 when end >= start
\* and by -1 otherwise.
DefaultStepYieldsDistance ==
  ( /\ FirstCall("toArray")
    /\ IsFiniteNumber(RootEnv.end)
    /\ RootEnv.step = DefaultStep(Num(RootEnv.start), RootEnv.end) )
  => /\ ~last.div
     /\ Len(last.vals) = AbsInt(RootEnv.end[2] - RootEnv.start)
     /\ Stepping(last.vals, RootEnv)

\* C2: with a finite end, iterating a fresh range(start, end, step) to done
\* ends and yields start + k * step for k = 0, 1, 2, ... as long as the
\* value lies strictly before end in the direction of step: every value
\* yielded lies before end, the one after the last does not, and nothing is
\* yielded when step points away from end.
StepYieldsValuesBeforeEnd ==
  ( /\ FirstCall("toArray")
    /\ IsFiniteNumber(RootEnv.end) )
  => /\ ~last.div
     /\ Stepping(last.vals, RootEnv)
     /\ \A k \in 1..Len(last.vals) :
          Before(RootEnv.start + (k - 1) * RootEnv.step, RootEnv)
     /\ ~Before(RootEnv.start + Len(last.vals) * RootEnv.step, RootEnv)

\* toArray() of a fresh root made with the same arguments
FreshArray(env) == RangeToArray(Root(env), 1)

\* C3: with a finite end, the length of a fresh root is the number of values
\* toArray() returns for a fresh root with the same arguments.
LengthIsArrayLength ==
  ( /\ FirstCall("length")
    /\ IsFiniteNumber(RootEnv.end) )
  => /\ ~FreshArray(RootEnv).div
     /\ last.val = Num(Len(FreshArray(RootEnv).vals))

\* C4: the length of a node of a chain is never negative.
LengthNeverNegative ==
  (last.op = "length" /\ ~last.div) => JsGE(last.val, Num(0))

----------------------------------------------------------------------------
\* Properties of the nodes of a chain, at every state a run reaches

\* The number of next() calls whose results are compared.
MaxLook == 6

\* the results of the next k calls of next() on node n
RECURSIVE NextResults(_, _, _, _)
RECURSIVE Noted(_, _, _, _)

NextResults(h, n, acc, k) ==
  IF k = 0 THEN acc ELSE Noted(RangeNext(h, n, MaxPull), n, acc, k)

Noted(r, n, acc, k) ==
  IF r.div
    THEN Append(acc, <<"never">>)
    ELSE NextResults(r.h, n, Append(acc, <<r.it.done, r.it.value>>), k - 1)

Upcoming(h, n) == NextResults(h, n, <<>>, MaxLook)

\* a is the first read of length on node n of heap h and b the second
SameAfterReads(h, n, a, b) ==
  ~a.div =>
    /\ ~b.div
    /\ b.val = a.val
    /\ Upcoming(b.h, n) = Upcoming(h, n)

ReadAgain(h, n, a) == SameAfterReads(h, n, a, RangeLength(a.h, n))

\* C5: on every node, at every consumption point, two consecutive reads of
\* length return the same value, and the results of the next() calls made
\* after the reads are the results the same calls return when length is not
\* read.
LengthLeavesIterationAlone ==
  \A n \in Nodes : ReadAgain(heap, n, RangeLength(heap, n))

Restored(s, vals) == ~s.div /\ s.vals = vals

\* C6: for every node built on a fresh root, after any calls of next() and
\* any reads of length, reset() followed by iterating the node to done yields
\* the values that iterating the node gave when it was built.
ResetRestoresOutput ==
  \A n \in Nodes \cap DOMAIN built :
    built[n].known =>
      Restored(Spread(RangeReset(heap, n), n, <<>>, MaxPull), built[n].vals)

\* o is the original iterated to done, c its clone iterated to done
SameRemaining(o, c) == ~o.div => (~c.div /\ c.vals = o.vals)

\* C7: at every consumption point, the original having returned done or not,
\* a clone yields the values the original has yet to yield, in the same
\* order, and then done.
CloneYieldsRemaining ==
  \A n \in Nodes :
    SameRemaining(Spread(heap, n, <<>>, MaxPull), SpreadClone(RangeClone(heap, n)))

\* the heap after k calls of next() on node n
RECURSIVE Pulled(_, _, _)
RECURSIVE Since(_, _, _)

Pulled(h, n, k) == IF k = 0 THEN h ELSE Since(RangeNext(h, n, MaxPull), n, k)

Since(r, n, k) == IF r.div THEN r.h ELSE Pulled(r.h, n, k - 1)

\* the values the buffers of node m hold
Held(h, buf) == [i \in 1..Len(buf) |-> <<ObjValue(h, buf[i][1]), buf[i][2]>>]

Buffers(h, m) == <<Held(h, h.nodes[m].pre), Held(h, h.nodes[m].orig)>>

\* after is heap h once the clone of node n has been pulled from
Untouched(h, n, after) ==
  /\ Upcoming(after, n) = Upcoming(h, n)
  /\ \A m \in 1..Len(h.nodes) : Buffers(after, m) = Buffers(h, m)

PulledClone(c, k) == Pulled(c.h, c.id, k)

\* C8: calling next() on a clone any number of times changes neither the
\* results the original returns from next() afterwards nor the values the
\* buffers of the original chain hold.
CloneSharesNothing ==
  \A n \in Nodes : \A k \in 0..MaxLook :
    Untouched(heap, n, PulledClone(RangeClone(heap, n), k))

Iterated(r) == Spread(r.h, r.id, <<>>, MaxPull)

Returned(r) == r.threw = "ok" /\ ~r.div

\* r is what reverse() gave, vals the values its result must yield
Yields(r, vals) == Returned(r) /\ Restored(Iterated(r), vals)

\* c is the clone iterated to done
Mirrors(r, c) == ~c.div => Yields(r, Reversed(c.vals))

\* C9: on a finite sequence, at every consumption point, iterating
\* reverse() yields the reversal of what iterating clone() yields.
ReverseYieldsReversal ==
  \A n \in Nodes :
    heap.nodes[n].isFinite =>
      Mirrors(RangeReverse(heap, n), SpreadClone(RangeClone(heap, n)))

ReverseAgain(r) == IF Returned(r) THEN RangeReverse(r.h, r.id) ELSE r

\* o is the original iterated to done
RoundTrip(r, o) == ~o.div => Yields(ReverseAgain(r), o.vals)

\* C10: on a finite chain, at every consumption point, iterating
\* reverse().reverse() yields the values the chain has yet to yield, in the
\* same order.
DoubleReverseRestores ==
  \A n \in Nodes :
    heap.nodes[n].isFinite =>
      RoundTrip(RangeReverse(heap, n), Spread(heap, n, <<>>, MaxPull))

----------------------------------------------------------------------------
\* Properties of take, of the operations that need a finite sequence, and of
\* stop predicates

\* the values node n yields before its first done, k of them at most
Leading(h, n, k) == Spread(h, n, <<>>, k).vals

\* s is the node iterated to done and l its length
CountIs(s, l, count) ==
  /\ ~s.div
  /\ Len(s.vals) = count
  /\ ~l.div
  /\ l.val = Num(count)

TakeBuilt == last.op = "take" /\ last.threw = "ok"

\* nothing on the path from node n to its root ends or thins the sequence
RECURSIVE Unbounded(_, _)
Unbounded(h, n) ==
  /\ h.nodes[n].filter = NoCb
  /\ h.nodes[n].stop = NoCb
  /\ ~h.nodes[n].hasOrig
  /\ IF h.nodes[n].parent = 0
       THEN ~IsFiniteNumber(h.nodes[n].env.end)
       ELSE Unbounded(h, h.nodes[n].parent)

\* each of the next k calls of next() on node n returns
Answers(h, n, k) ==
  \A i \in 1..Len(NextResults(h, n, <<>>, k)) :
    NextResults(h, n, <<>>, k)[i] # <<"never">>

\* C11: the node take(n) returns yields as many values as its parent has,
\* n at most, and then done; on an infinite parent that is n values; the
\* length of the node is that number.  (The parent answers the n + 1 calls of
\* next() this takes: a filter that rejects every value of an infinite
\* sequence never answers.)
TakeYieldsCount ==
  (TakeBuilt /\ Answers(heap, last.node, last.arg[2] + 1)) =>
    /\ CountIs(Spread(heap, last.id, <<>>, MaxPull),
               RangeLength(heap, last.id),
               Len(Leading(heap, last.node, last.arg[2])))
    /\ Unbounded(heap, last.node) =>
         Len(Leading(heap, last.node, last.arg[2])) = last.arg[2]

\* take(2) on an infinite parent: two values, length 2
TakeOnInfinite ==
  /\ TakeBuilt
  /\ Unbounded(heap, last.node)
  /\ last.arg = Num(2)
  /\ CountIs(Spread(heap, last.id, <<>>, MaxPull), RangeLength(heap, last.id), 2)

\* a call of an operation that needs a finite sequence
NeedsFinite == last.op \in {"reduce", "toArray", "reverse"}

\* the end of the range() call the node comes from is not finite
InfiniteEnd(n) == ~IsFiniteNumber(heap.nodes[n].env.end)

\* the node was made by take(): its stop predicate is (_, index) => index <= n
IsTakeNode(n) == heap.nodes[n].stop[1] = "idxle"

\* C12, as stated: reduce, toArray and reverse raise an error on every node
\* of a chain whose root end is not finite.
RaisesOnInfiniteEnd ==
  (NeedsFinite /\ InfiniteEnd(last.node)) => last.threw = "Error"

\* C12, amended: on a chain whose root end is not finite, reduce, toArray and
\* reverse raise an error exactly on the nodes that are not marked finite;
\* only nodes made by take() are marked finite, and on those the three
\* operations return.
RaisesOnUnmarked ==
  (NeedsFinite /\ InfiniteEnd(last.node)) =>
    /\ heap.nodes[last.node].isFinite => IsTakeNode(last.node)
    /\ (last.threw = "Error") <=> ~heap.nodes[last.node].isFinite
    /\ IsTakeNode(last.node) /\ heap.nodes[last.node].isFinite =>
         last.threw = "ok"

\* reduce raises on a node derived from an infinite root
ReduceRaised ==
  /\ last.op = "reduce"
  /\ InfiniteEnd(last.node)
  /\ heap.nodes[last.node].parent # 0
  /\ last.threw = "Error"

\* r is the next call of next() on node n of heap h: it returns done
\* because the stop predicate of n refuses a value its parent produced
StopsNow(h, n, r) ==
  /\ h.nodes[n].stop # NoCb
  /\ Len(h.nodes[n].pre) = 0
  /\ ~r.div
  /\ r.it.done
  /\ r.h.nodes[h.nodes[n].parent].cur # Undefined

AllDone(results) ==
  \A i \in 1..Len(results) : results[i] = <<TRUE, Undefined>>

StaysDone(h, n, r) == StopsNow(h, n, r) => AllDone(Upcoming(r.h, n))

\* C13: once the stop predicate of a node has returned false for a value,
\* every later call of next() on that node returns done, whatever the
\* predicate would return for later values of the parent.
StopIsPermanent ==
  \A n \in Nodes : StaysDone(heap, n, RangeNext(heap, n, MaxPull))

\* the values of vals that satisfy the predicate p, in the order of vals
\* (the predicates of Filters read the value only)
RECURSIVE Selected(_, _)
Selected(p, vals) ==
  IF vals = <<>>
    THEN <<>>
    ELSE IF ApplyPred(p, Head(vals), Num(0))
           THEN <<Head(vals)>> \o Selected(p, Tail(vals))
           ELSE Selected(p, Tail(vals))

\* f applied to each value of vals (the callbacks of Maps read the value only)
Images(f, vals) == [k \in 1..Len(vals) |-> ApplyMap(f, vals[k], Num(0))]

\* range(...).filter(p).map(f) has just been built on a finite range and
\* nothing was pulled
FilterThenMap ==
  /\ calls = 2
  /\ pristine
  /\ last.op = "map"
  /\ heap.nodes[last.node].filter # NoCb
  /\ heap.nodes[last.node].parent = 1
  /\ IsFiniteNumber(RootEnv.end)
  /\ built[1].known

Produces(s, vals) == ~s.div /\ s.vals = vals

\* C14: filter(p).map(f) on a fresh finite range yields f applied to exactly
\* the values of the range that satisfy p, in the order of the range: a
\* rejected value is skipped without ending the sequence and f is applied
\* only to the values that passed.
FilterMapYieldsImages ==
  FilterThenMap =>
    Produces(Spread(heap, last.id, <<>>, MaxPull),
             Images(last.arg, Selected(heap.nodes[last.node].filter, built[1].vals)))

\* range(-1, 3).filter(odd).map(inc): 0 is rejected between -1 and 1
FilterMapSkips ==
  /\ FilterThenMap
  /\ built[1].vals = <<Num(-1), Num(0), Num(1), Num(2)>>
  /\ Produces(Spread(heap, last.id, <<>>, MaxPull), <<Num(0), Num(2)>>)

\* the arguments the documentation of range() refuses; a step is provided
\* when it is neither null nor left out
WithinSafe(v) == v[2] >= -MAX_SAFE_INTEGER /\ v[2] <= MAX_SAFE_INTEGER

BadStart(start) == ~(start[1] = "num" /\ WithinSafe(start))

BadEnd(end) ==
  \/ end[1] \notin {"num", "inf"}
  \/ end[1] = "num" /\ ~WithinSafe(end)

BadStep(step) ==
  /\ step \notin {Null, Undefined}
  /\ \/ step = Num(0)
     \/ ~(step[1] = "num" /\ WithinSafe(step))

Refused(args) == BadStart(args[1]) \/ BadEnd(args[2]) \/ BadStep(args[3])

\* C15: range(start, end, step) fails, and returns no sequence, exactly when
\* start is not a safe integer, or end is neither an integer nor an
\* infinity, or end is a finite integer outside the safe range, or step is
\* provided and is zero or not a safe integer; for every other input it
\* returns a sequence.
RangeFailsExactly ==
  last.op = "range" =>
    /\ (last.threw # "ok") <=> Refused(last.arg)
    /\ last.threw # "ok" => Len(heap.nodes) = 0 /\ last.id = 0
    /\ last.threw = "ok" =>
         /\ Len(heap.nodes) = 1
         /\ last.id = 1
         /\ heap.nodes[1].parent = 0

\* range(0, 3, 0) has failed on the zero step alone
ZeroStepRefused ==
  /\ last.op = "range"
  /\ last.arg = <<Num(0), Num(3), Num(0)>>
  /\ last.threw = "RangeError"
  /\ Len(heap.nodes) = 0

\* count is a non-negative safe integer
IsCount(count) ==
  count[1] = "num" /\ count[2] >= 0 /\ count[2] <= MAX_SAFE_INTEGER

\* node n of heap h answers next() as node m of heap g does
Alike(h, n, g, m) == Upcoming(h, n) = Upcoming(g, m)

LimitedTo(count) == <<"idxle", count[2]>>

\* C16: take(n) fails when n is not a non-negative safe integer and creates
\* no node then; for every non-negative safe integer n the node it returns
\* behaves as takeWhile((_, index) => index <= n) and is marked finite, even
\* when the chain above it is not.
TakeChecksCount ==
  [][(last'.op = "take" /\ calls' = calls + 1) =>
       IF IsCount(last'.arg)
         THEN /\ last'.threw = "ok"
              /\ last'.id = Len(heap.nodes) + 1
              /\ Len(heap'.nodes) = Len(heap.nodes) + 1
              /\ heap'.nodes[last'.id].isFinite
              /\ heap'.nodes[last'.id].stop = LimitedTo(last'.arg)
              /\ Alike(heap', last'.id,
                       RangeTakeWhile(heap, last'.node, LimitedTo(last'.arg)),
                       Len(heap.nodes) + 1)
         ELSE /\ last'.threw = "TypeError"
              /\ last'.id = 0
              /\ heap' = heap]_vars

\* take(2) on a root with an infinite end has returned a node marked finite
TakeMarksFinite ==
  /\ last.op = "take"
  /\ last.arg = Num(2)
  /\ last.threw = "ok"
  /\ ~heap.nodes[last.node].isFinite
  /\ heap.nodes[last.id].isFinite

\* vals[k] paired with its position k
Enumerated(vals) == [k \in 1..Len(vals) |-> Pair(Num(k), vals[k])]

\* a is the iteration of s.enumerate() and b the iteration of s
PairsOf(a, b) == a.vals = Enumerated(b.vals) /\ a.div = b.div

Folded(initialValue, vals, base) ==
  initialValue \o [j \in 1..Len(vals) |-> <<vals[j], Num(base + j)>>]

\* the iteration s reaches done
ReachesDone(s) == ~s.div

\* node n of heap h, or a node on its parent path, was made by take
RECURSIVE TakenFrom(_, _)
TakenFrom(h, n) ==
  \/ h.nodes[n].stop[1] = "idxle"
  \/ h.nodes[n].parent # 0 /\ TakenFrom(h, h.nodes[n].parent)

\* a finite sequence: the end of the range is finite or a take limits it
Limited(h, n) == IsFiniteNumber(h.nodes[n].env.end) \/ TakenFrom(h, n)

FoldOf(s, initialValue, base, call) ==
  ReachesDone(s) =>
    /\ call.threw = "ok"
    /\ ~call.div
    /\ call.val = Folded(initialValue, s.vals, base)

\* C18: reduce(initial, op) on a finite sequence folds left to right over
\* exactly the remaining values, calling op once for each with the
\* accumulator, the value and the 1-based index of the value in the node,
\* and returns the last accumulator (initial when no value remains).
ReduceFoldsRemaining ==
  [][(last'.op = "reduce" /\ calls' = calls + 1 /\ Limited(heap, last'.node)) =>
       FoldOf(Spread(heap, last'.node, <<>>, MaxPull), last'.arg,
              heap.nodes[last'.node].index[2], last')]_vars

\* the value that follows cur in a range without an end: cur + step while
\* that is a safe integer, then the infinity step points to, for good
Following(cur, step) ==
  IF IsNum(cur) /\ IsSafeInteger(Num(cur[2] + step))
    THEN Num(cur[2] + step)
    ELSE IF step > 0 THEN PosInf ELSE NegInf

\* root n has an infinite end and has yielded its current value
Emitting(n) ==
  /\ heap.nodes[n].parent = 0
  /\ ~IsFiniteNumber(heap.nodes[n].env.end)
  /\ heap.nodes[n].it = "susp"
  /\ Len(heap.nodes[n].pre) = 0

Emits(r, v) == ~r.div /\ ~r.it.done /\ r.it.value = v

\* C19: with an infinite end the base emitter never yields a finite value
\* outside the safe range: once cur + step would leave
\* [-MAX_SAFE_INTEGER, MAX_SAFE_INTEGER], every later value is +Infinity
\* when step > 0 and -Infinity when step < 0, and the value stays there.
EmitterLatchesBySign ==
  \A n \in Nodes :
    Emitting(n) =>
      Emits(RangeNext(heap, n, MaxPull),
            Following(heap.nodes[n].cur, heap.nodes[n].env.step))

\* node n of heap h and the nodes on its parent path
RECURSIVE PathOf(_, _)
PathOf(h, n) ==
  IF h.nodes[n].parent = 0 THEN {n} ELSE {n} \cup PathOf(h, h.nodes[n].parent)

HasFilterAbove(h, n) == \E m \in PathOf(h, n) : h.nodes[m].filter # NoCb

\* length has just been read on a node that is not marked finite
ReadsUnmarked ==
  /\ last'.op = "length"
  /\ calls' = calls + 1
  /\ ~heap.nodes[last'.node].isFinite

AssumesInfinity(call, filtered) ==
  call.val = PosInf /\ (call.warn <=> filtered)

\* C20, as stated: for a node that is not marked finite, length is +Infinity
\* and the warning is emitted exactly when the node or a node on its parent
\* path has a filter.
LengthWarnsWhenFiltered ==
  [][ReadsUnmarked =>
       AssumesInfinity(last', HasFilterAbove(heap, last'.node))]_vars

\* C20, amended: the first read of length on a node that is not marked
\* finite and holds no memoized length gives +Infinity and warns exactly
\* when the node or a node on its parent path has a filter; a read that
\* finds a memoized length (a second read, a clone made after a read, a
\* reversed node) returns that length without a warning.
LengthWarnsOnFirstRead ==
  [][ReadsUnmarked =>
       IF heap.nodes[last'.node].length = Null
         THEN AssumesInfinity(last', HasFilterAbove(heap, last'.node))
         ELSE /\ last'.val = heap.nodes[last'.node].length
              /\ ~last'.warn]_vars

\* the first read of length on a map node over a filter node over an
\* infinite root has warned and given +Infinity
WarnedForAncestor ==
  /\ last.op = "length"
  /\ last.warn
  /\ last.val = PosInf
  /\ heap.nodes[last.node].filter = NoCb
  /\ HasFilterAbove(heap, last.node)

----------------------------------------------------------------------------
\* Properties of length, the buffer and the counters

\* no node on the parent path of node n of heap h is a reversed node
Plain(h, n) == \A m \in PathOf(h, n) : ~h.nodes[m].hasOrig

CountsValues(s, call) ==
  ReachesDone(s) => ~call.div /\ call.val = Num(Len(s.vals))

\* C21: for every finite chain built on a fresh root from map, filter, take
\* and takeWhile, the length of the last node, read before any next() call,
\* is the number of values that iterating the chain to done produces.
LengthCountsChain ==
  [][( /\ last'.op = "length"
       /\ calls' = calls + 1
       /\ pristine
       /\ heap.nodes[last'.node].parent # 0
       /\ Plain(heap, last'.node)
       /\ Limited(heap, last'.node) ) =>
       CountsValues(Spread(heap, last'.node, <<>>, MaxPull), last')]_vars

\* the indexes stored in buf are idx + 1, idx + 2, ...
Continues(buf, idx) ==
  \A i \in 1..Len(buf) : buf[i][2] = JsAdd(idx, i) /\ JsLT(idx, buf[i][2])

\* r, the result of next() on node n of heap h, is the first entry of the
\* buffer of n, and no other node and no iteration object has changed
ServedFromBuffer(h, n, r) ==
  /\ ~r.div
  /\ ~r.it.done
  /\ r.it.obj = Head(h.nodes[n].pre)[1]
  /\ r.it.value = ObjValue(h, Head(h.nodes[n].pre)[1])
  /\ r.h.nodes[n].index = Head(h.nodes[n].pre)[2]
  /\ r.h.nodes[n].pre = Tail(h.nodes[n].pre)
  /\ r.h.objs = h.objs
  /\ \A m \in 1..Len(h.nodes) : m # n => r.h.nodes[m] = h.nodes[m]

\* r, the result of next() on a derived node n of heap h with an empty
\* buffer, has pulled from the parent
AsksParent(h, n, r) ==
  (~r.div /\ h.nodes[n].parent # 0) =>
    r.h.nodes[h.nodes[n].parent].gen # h.nodes[h.nodes[n].parent].gen

\* C22: buffered values are delivered before fresh ones and in index order:
\* while the buffer of a node is not empty, next() returns its first entry
\* without pulling from the parent, the indexes stored in the buffer ascend
\* strictly and continue the index of the node, and a freshly generated
\* value is returned only when the buffer is empty.
BufferServedFirst ==
  \A n \in Nodes :
    IF Len(heap.nodes[n].pre) > 0
      THEN /\ Continues(heap.nodes[n].pre, heap.nodes[n].index)
           /\ ServedFromBuffer(heap, n, RangeNext(heap, n, MaxPull))
      ELSE AsksParent(heap, n, RangeNext(heap, n, MaxPull))

\* next() has delivered a buffered value and the buffer holds more
BufferPartlyServed ==
  /\ last.op = "next"
  /\ ~last.done
  /\ heap.nodes[last.node].index # Num(0)
  /\ Len(heap.nodes[last.node].pre) > 0

\* Runs that start on a chain from which 0, 1 or about MAX_SAFE_INTEGER
\* values were pulled: an unbounded root, a map node and a take node over
\* it, and a filter node over a finite root
CountChains ==
  { Root(RangeEnv(Num(0), PosInf, Null)),
    RangeMap(Root(RangeEnv(Num(0), PosInf, Null)), 1, <<"inc", 0>>),
    RangeTake(Root(RangeEnv(Num(0), PosInf, Null)), 1, Num(MAX_SAFE_INTEGER)),
    RangeFilter(Root(RangeEnv(Num(-1), Num(3), Null)), 1, <<"odd", 0>>) }

CountPulls ==
  {0, 1, MAX_SAFE_INTEGER - 1, MAX_SAFE_INTEGER, MAX_SAFE_INTEGER + 1}

CountInit ==
  /\ \E chain \in CountChains, k \in CountPulls :
       heap = Collect(Pulled(chain, Len(chain.nodes), k))
  /\ last = Call("none", 0, Null)
  /\ calls = 0
  /\ pristine = FALSE
  /\ built = Known(heap, 0, FALSE)

CountNext ==
  \/ PipeRunning /\ \E n \in Nodes : NextOp(n)
  \/ PipeRunning /\ \E n \in Nodes : LengthOp(n)
  \/ PipeRunning /\ \E n \in Nodes : ResetOp(n)
  \/ PipeRunning /\ \E n \in Nodes : CloneOp(n)
  \/ PipeRunning /\ \E n \in Nodes, cb \in Filters : FilterOp(n, cb)

CountSpec == CountInit /\ [][CountNext]_vars

\* a counter one higher, +Infinity from the ceiling on
Raised(c) ==
  IF c[1] = "num" /\ c[2] < MAX_SAFE_INTEGER THEN Num(c[2] + 1) ELSE PosInf

NotLower(before, after) == JsLE(before, after)

\* node n of heap g, the heap after a call of next() on it from heap h
RaisedByOne(h, g, n) ==
  /\ g.nodes[n].index = Raised(h.nodes[n].index)
  /\ g.nodes[n].gen = Raised(h.nodes[n].gen)

\* C23: between two reset() calls the index of a node and its counter of
\* produced values never decrease; each next() on the node raises both by one
\* while they are below MAX_SAFE_INTEGER, and from that ceiling on they are
\* +Infinity and stay there.
CountersClimb ==
  [][(last'.op # "reset" /\ calls' = calls + 1) =>
       /\ \A n \in Nodes :
            /\ NotLower(heap.nodes[n].index, heap'.nodes[n].index)
            /\ NotLower(heap.nodes[n].gen, heap'.nodes[n].gen)
       /\ (last'.op = "next" /\ ~last'.div) =>
            RaisedByOne(heap, heap', last'.node)]_vars

\* next() on a node whose counters were at the ceiling has made them +Infinity
CountersSaturated ==
  /\ last.op = "next"
  /\ last.index = Num(MAX_SAFE_INTEGER)
  /\ heap.nodes[last.node].index = PosInf
  /\ heap.nodes[last.node].gen = PosInf

\* C24: every range with a finite end terminates: for every valid start,
\* finite end and nonzero step, repeated next() calls on the root reach a
\* done result after finitely many calls (at most MaxPull, which exceeds
\* the number of safe integers between start and end).
FiniteEndTerminates ==
  \A n \in Nodes :
    (heap.nodes[n].parent = 0 /\ IsFiniteNumber(heap.nodes[n].env.end)) =>
      ReachesDone(Spread(heap, n, <<>>, MaxPull))

\* node n of heap h is a reversed node that holds a buffer, or is derived
\* from one
ReversedAbove(h, n) == \E m \in PathOf(h, n) : h.nodes[m].hasOrig

\* s is the first iteration of node n of heap h; after k values are
\* consumed and reset() is called, the iteration gives the values of s
Replays(h, n, s) ==
  ReachesDone(s) =>
    \A k \in 0..MaxLook :
      Restored(Spread(RangeReset(Pulled(h, n, k), n), n, <<>>, MaxPull), s.vals)

\* C25: after reset() on a reversed node that holds a buffer, or on a node
\* derived from it by map, filter or takeWhile, iterating yields the values
\* it yielded the first time, however many values were consumed before the
\* reset and whatever map was applied below the reversed node.
ResetReplaysReversed ==
  \A n \in Nodes :
    (pristine /\ ReversedAbove(heap, n)) =>
      Replays(heap, n, Spread(heap, n, <<>>, MaxPull))

\* node m of heap g is at its start: g is the heap after reset(), h the
\* heap before it
AtStart(h, g, m) ==
  /\ g.nodes[m].index = Num(0)
  /\ g.nodes[m].gen = Num(0)
  /\ IF h.nodes[m].hasOrig
       THEN /\ g.nodes[m].pre = g.nodes[m].orig
            /\ Held(g, g.nodes[m].orig) = Held(h, h.nodes[m].orig)
       ELSE g.nodes[m].pre = <<>>
  /\ g.nodes[m].length = h.nodes[m].length
  /\ h.nodes[m].parent = 0 =>
       /\ g.nodes[m].cur = Num(h.nodes[m].env.start)
       /\ g.nodes[m].it = "fresh"

Ancestors(h, n) == PathOf(h, n) \ {n}

\* l is the result of reading length on node n of heap h: every node above n
\* returns from next() what it would return had length not been read
AncestorsUnmoved(h, n, l) ==
  ~l.div => \A m \in Ancestors(h, n) : Upcoming(l.h, m) = Upcoming(h, m)

\* C27: reading length on a derived node does not change the values that
\* its parent, or any node further up, returns from its own next()
\* afterwards.
LengthLeavesParentAlone ==
  \A n \in Nodes : AncestorsUnmoved(heap, n, RangeLength(heap, n))

\* node m is in heap g as it is in heap h: nothing was pulled from it
SameNode(h, g, m) ==
  /\ g.nodes[m].index = h.nodes[m].index
  /\ g.nodes[m].gen = h.nodes[m].gen
  /\ g.nodes[m].cur = h.nodes[m].cur
  /\ g.nodes[m].it = h.nodes[m].it
  /\ Buffers(g, m) = Buffers(h, m)
  /\ g.nodes[m].length = h.nodes[m].length

Raising == {"toArray", "reduce", "reverse", "take"}

RECURSIVE Carries(_, _, _, _)
RECURSIVE CarriesOn(_, _, _, _)

Carries(h, n, produced, k) ==
  k = 0 \/ CarriesOn(RangeNext(h, n, MaxPull), n, produced, k)

CarriesOn(r, n, produced, k) ==
  CASE r.div -> TRUE
    [] ~r.div /\ r.it.done -> Carries(r.h, n, produced, k - 1)
    [] OTHER -> /\ r.idx = Num(produced + 1)
                /\ Carries(r.h, n, produced + 1, k - 1)

\* C29: rejected values are not counted: the callbacks of a node are called
\* with index = (number of values the node has produced so far) + 1, and the
\* k-th value a node produces carries index k.
IndexCountsProduced ==
  \A n \in Nodes :
    (pristine /\ heap.nodes[n].index = Num(0)) => Carries(heap, n, 0, MaxLook)

Emptied(r) == ~r.div /\ r.it.done

\* s is the iteration of the derived node n of heap h to done: afterwards
\* the parent of n returns done from its own next()
ParentDone(h, n, s) ==
  ReachesDone(s) => Emptied(RangeNext(s.h, h.nodes[n].parent, MaxPull))

NoStopAbove(h, n) == \A m \in PathOf(h, n) : h.nodes[m].stop = NoCb

\* r is a call of next() on node n of heap h, a node with a stop predicate,
\* no filter and an empty buffer: the parent was asked for one value
DrawsOne(h, n, r) ==
  ~r.div =>
    r.h.nodes[h.nodes[n].parent].gen = Raised(h.nodes[h.nodes[n].parent].gen)

----------------------------------------------------------------------------
\* Properties of done, of take and of the finite mark

\* node n of heap h is a root, map or filter node over a finite range, with
\* no stop predicate on its chain
PlainFinite(h, n) ==
  /\ NoStopAbove(h, n)
  /\ Plain(h, n)
  /\ IsFiniteNumber(h.nodes[n].env.end)

\* next() on node n of heap h returns done
AtEnd(h, n) == Emptied(RangeNext(h, n, MaxPull))

\* C31: done is absorbing for chains without a stop predicate: once next()
\* on a root, map or filter node over a finite range returns done, every
\* later next() on that node returns {done: true, value: undefined} until
\* reset() is called, whatever is called in between.
DoneIsAbsorbing ==
  [][(last'.op # "reset" /\ calls' = calls + 1) =>
       /\ \A n \in Nodes :
            (PlainFinite(heap, n) /\ AtEnd(heap, n)) => AtEnd(heap', n)
       /\ (last'.op = "next" /\ ~last'.div /\ last'.done) =>
            last'.val = Undefined]_vars

\* a second next() on a filter or map node over a finite range has returned
\* done after the first one did
DoneTwice ==
  /\ last.op = "next"
  /\ last.done
  /\ heap.nodes[last.node].parent # 0
  /\ PlainFinite(heap, last.node)
  /\ heap.nodes[last.node].index = Num(2)
  /\ heap.nodes[1].env.step = -1

\* l is the length read on the freshly built node n of heap h: read for
\* the first time after k calls of next(), length is the same number
SameWhenever(h, n, l) ==
  ~l.div =>
    \A k \in 0..MaxLook : RangeLength(Pulled(h, n, k), n).val = l.val

\* C32: the length of a finite filter, take or takeWhile node does not
\* depend on when it is first read: read after k calls of next(), calls
\* that returned done included, it is the number read on the freshly built
\* node.
LengthWheneverRead ==
  \A n \in Nodes :
    ( /\ pristine
      /\ heap.nodes[n].filter # NoCb \/ heap.nodes[n].stop # NoCb
      /\ heap.nodes[n].isFinite
      /\ heap.nodes[n].length = Null ) =>
      SameWhenever(heap, n, RangeLength(heap, n))

\* p holds the values the parent of the take node n of heap h had remaining
\* (one more than count of them at least), s is the iteration of n to done:
\* afterwards the parent returns the one after the first count of them
LeavesRest(h, n, count, p, s) ==
  (Len(p) > count /\ ReachesDone(s)) =>
    Emits(RangeNext(s.h, h.nodes[n].parent, MaxPull), p[count + 1])

\* C33: take(n) draws at most n values from its parent: after a take(n) node
\* over a parent with more than n remaining values has been iterated to
\* done, the next value the parent returns from its own next() is the
\* (n+1)-th of the values it had remaining when take was applied.
TakeDrawsCount ==
  TakeBuilt =>
    LeavesRest(heap, last.id, last.arg[2],
               Leading(heap, last.node, last.arg[2] + 1),
               Spread(heap, last.id, <<>>, MaxPull))

\* c is the clone of node n of heap h: it is marked finite and length,
\* toArray, reduce and reverse give on it what they give on n
SameAsOriginal(h, n, c) ==
  /\ c.h.nodes[c.id].isFinite
  /\ RangeLength(c.h, c.id).val = RangeLength(h, n).val
  /\ RangeToArray(c.h, c.id).threw = RangeToArray(h, n).threw
  /\ RangeToArray(c.h, c.id).vals = RangeToArray(h, n).vals
  /\ RangeReduce(c.h, c.id, <<>>, "list").threw = RangeReduce(h, n, <<>>, "list").threw
  /\ RangeReduce(c.h, c.id, <<>>, "list").val = RangeReduce(h, n, <<>>, "list").val
  /\ RangeReverse(c.h, c.id).threw = RangeReverse(h, n).threw

\* C34: clone() preserves finiteness: the clone of a take(n) node over an
\* infinite range is itself marked finite, so length, toArray, reduce and
\* reverse give on the clone the results they give on the original.
CloneKeepsFinite ==
  \A n \in Nodes :
    (IsTakeNode(n) /\ heap.nodes[n].isFinite /\ InfiniteEnd(n)) =>
      SameAsOriginal(heap, n, RangeClone(heap, n))

\* the last call has derived a node by map, filter, takeWhile or enumerate
\* from a take node over an infinite range
DerivedFromTake ==
  /\ last.op \in {"map", "filter", "takeWhile", "enumerate"}
  /\ IsTakeNode(last.node)
  /\ heap.nodes[last.node].isFinite
  /\ InfiniteEnd(last.node)

Succeeds(a, r, l) ==
  /\ a.threw = "ok"
  /\ r.threw = "ok"
  /\ ~l.div => IsFiniteNumber(l.val)

\* C35: finiteness propagates downstream of take: every node derived by map,
\* filter, takeWhile or enumerate from a take(n) node over an infinite range
\* is treated as finite, so its toArray and reduce succeed and its length
\* is a finite number.
TakeMakesChainFinite ==
  DerivedFromTake =>
    /\ heap.nodes[last.id].isFinite
    /\ Succeeds(RangeToArray(heap, last.id),
                RangeReduce(heap, last.id, <<>>, "list"),
                RangeLength(heap, last.id))

\* h is a heap in which r is a reversed node that holds a buffer, c the
\* clone of r made in h: reset() and an iteration give on the clone what
\* they give on r
SameAfterReset(h, r, c) ==
  SameRemaining(Spread(RangeReset(h, r), r, <<>>, MaxPull),
                Spread(RangeReset(c.h, c.id), c.id, <<>>, MaxPull))

ClonedAfter(h, r) == SameAfterReset(h, r, RangeClone(h, r))

\* C36: a clone of a reversed node that holds a buffer behaves like the
\* reversed node under reset: for r = s.reverse() on a non-root s and
\* c = r.clone(), after any number of next() calls, c.reset() followed by
\* iterating c yields the values r.reset() followed by iterating r yields.
CloneOfReversedResets ==
  \A r \in Nodes :
    heap.nodes[r].hasOrig =>
      \A k \in 0..MaxLook : ClonedAfter(Pulled(heap, r, k), r)

\* s is the iteration of the sequence reverse() returned for node n of heap
\* h: the chain of n answers next() as before the call, and its indexes and
\* buffers are as before
LeftAsBefore(h, n, s) ==
  ~s.div =>
    /\ Untouched(h, n, s.h)
    /\ \A m \in 1..Len(h.nodes) : s.h.nodes[m].index = h.nodes[m].index

ReverseLeaves(h, n, r) ==
  (r.threw = "ok" /\ ~r.div) => LeftAsBefore(h, n, Iterated(r))

\* C37: reverse() does not modify the sequence it is called on: for every
\* finite chain in every state, calling reverse() and iterating the result
\* leaves the later next() results, the indexes and the buffers of the
\* original chain as they would have been without the call.
ReverseLeavesOriginal ==
  \A n \in Nodes : ReverseLeaves(heap, n, RangeReverse(heap, n))

\* r is what reverse() or clone() returned for a node: a sequence, whose
\* iteration reaches done, and at once when atEnd
Sound(r, atEnd) ==
  /\ r.threw = "ok"
  /\ ~r.div
  /\ ReachesDone(Spread(r.h, r.id, <<>>, MaxPull))
  /\ atEnd => AtEnd(r.h, r.id)

Cloned(c) == [h |-> c.h, id |-> c.id, threw |-> "ok", div |-> FALSE]

\* C38: on a sequence with a finite end (one whose own iteration reaches
\* done is enough here) reverse() and clone() never raise and never produce
\* a sequence that does not terminate, at any consumption point; on a root
\* that has returned done each returns a sequence whose first next()
\* returns done.
ReverseAndCloneSound ==
  \A n \in Nodes :
    ( /\ IsFiniteNumber(heap.nodes[n].env.end)
      /\ ReachesDone(Spread(heap, n, <<>>, MaxPull)) ) =>
      /\ Sound(RangeReverse(heap, n), heap.nodes[n].it = "done")
      /\ Sound(Cloned(RangeClone(heap, n)), heap.nodes[n].it = "done")

====
